---- MODULE Spec2Model ----
(***************************************************************************)
(* Model of peregrinearb/async_find_opportunities.py: the multi-market     *)
(* orchestrator SuperOpportunityFinder (get_opportunities,                 *)
(* _find_opportunity, exchange_fetch_order_book, _add_to_rates_dict) under *)
(* Spec, the single-market resolver OpportunityFinder (find_min_max) under *)
(* FinderSpec, and one resolution attempt taken in two completion orders   *)
(* under ReplaySpec.                                                       *)
(*                                                                         *)
(* The event loop is single-threaded and cooperative: a coroutine runs     *)
(* without interruption between two awaits, so every action below is the   *)
(* code between two suspension points.  Sleeps and fetches are untimed: a  *)
(* fetch may take arbitrarily long, so any order of wake-ups is allowed.   *)
(*                                                                         *)
(* utils.Collections is not part of the source at hand: it is a mapping    *)
(* from market to the exchanges listing it whose                           *)
(* remove_exchange_from_market removes one exchange from one entry, in     *)
(* place, and drops an entry that lost its last exchange.  The exchange    *)
(* lists are sets here: the code only iterates over them and tests         *)
(* membership.  The datetime field of an opportunity is left out.          *)
(* asyncio.as_completed does not cancel the tasks it was given when its    *)
(* loop is left early: the fetches of an abandoned attempt stay in flight  *)
(* (variable stale) and still prune the collection and record USD rates.   *)
(***************************************************************************)
EXTENDS Integers, Sequences, FiniteSets, TLC

VARIABLES
    collections,             \* self.collections: market -> exchanges listed for it
    exchange_list,           \* the list object each market's coroutine was handed
    rate_limited_exchanges,  \* self.rate_limited_exchanges
    find_opportunity_calls,  \* self._find_opportunity_calls
    opportunity_id,          \* self.opportunity_id
    usd_rates,               \* self.usd_rates: exchange -> market -> bid (0: no entry)
    price_markets,           \* argument of get_opportunities (None or a set of markets)
    gen,                     \* position of the generator get_opportunities
    task,                    \* per market: the frame of its _find_opportunity coroutine
    awaited,                 \* per market: exchanges whose fetch of the current attempt is in flight
    stale,                   \* per market, exchange: fetches in flight that nobody awaits any more
    done_queue,              \* as_completed's queue of finished market tasks
    yielded,                 \* what the generator has yielded so far, in order
    closed,                  \* per exchange: number of close() calls made
    to_close,                \* close() tasks created and not yet run
    error,                   \* an exception escaped get_opportunities
    hist,                    \* history: what the fetches of each market returned
    finder,                  \* an OpportunityFinder and its find_min_max call
    replay                   \* one resolution attempt replayed in two completion orders

vars == <<collections, exchange_list, rate_limited_exchanges, find_opportunity_calls,
          opportunity_id, usd_rates, price_markets, gen, task, awaited, stale,
          done_queue, yielded, closed, to_close, error, hist, finder, replay>>

----------------------------------------------------------------------------
(* Bounds of the model *)

MaxPrice == 2
MaxTransient == 1
MaxCalls == 3

(* Program constants *)

StartOpportunityId == 0
StartCalls == -1
Inf == 999
NoBid == -1
NoVolume == 0

None == "None"

\* The markets, in the order of the collection dict, and the exchanges held
MarketNames == <<"ETH/BTC", "BTC/USD">>
Markets == {MarketNames[i] : i \in 1..Len(MarketNames)}
Exchanges == {"binance", "kraken"}

\* market_name.find('USD') for the market names of the model
find_USD == [m \in Markets |->
               CASE m = "ETH/BTC" -> -1
                 [] m = "BTC/USD" -> 4]

MarketIndex(m) == CHOOSE i \in 1..Len(MarketNames) : MarketNames[i] = m

----------------------------------------------------------------------------
(* Order books and the outcomes of exchange.fetch_order_book *)

Prices == 1..MaxPrice
Level(p) == <<p, 1>>          \* [price, volume]

FullBooks == {[bids |-> <<Level(p)>>, asks |-> <<Level(p + 1)>>] : p \in Prices}
EmptyBooks == {[bids |-> <<>>, asks |-> <<Level(1)>>],
               [bids |-> <<Level(1)>>, asks |-> <<>>],
               [bids |-> <<>>, asks |-> <<>>]}
OrderBooks == FullBooks \cup EmptyBooks
NoneBook == [none |-> TRUE]   \* stands for the Python value None

TransientErrors == {"DDoSProtection", "RequestTimeout"}
Errors == TransientErrors \cup {"ExchangeError", "ExchangeNotAvailable"}

Outcomes == {[exc |-> x, book |-> NoneBook] : x \in Errors}
            \cup {[exc |-> None, book |-> b] : b \in OrderBooks}

----------------------------------------------------------------------------
(* Pure parts of the code *)

\* utils.Collections.remove_exchange_from_market: the exchange leaves the
\* market's entry; an entry that loses its last exchange leaves the collection.
remove_exchange_from_market(coll, exchange_name, market_name) ==
    IF market_name \notin DOMAIN coll THEN coll
    ELSE IF coll[market_name] \ {exchange_name} = {}
         THEN [m \in DOMAIN coll \ {market_name} |-> coll[m]]
         ELSE [coll EXCEPT ![market_name] = @ \ {exchange_name}]

\* _add_to_rates_dict
add_to_rates_dict(rates, exchange_name, market_name, price) ==
    [rates EXCEPT ![exchange_name][market_name] = price]

\* exchange_fetch_order_book without the pruning of line 267
exchange_fetch_order_book_keep(out, exchange_name, market_name) ==
    LET ret(book, name, rm, rate, exc) ==
            [order_book |-> book, exchange_name |-> name,
             remove |-> rm, rate |-> rate, raised |-> exc]
    IN  IF out.exc \in {"DDoSProtection", "RequestTimeout"}
        THEN ret(NoneBook, exchange_name, FALSE, FALSE, FALSE)
        ELSE IF out.exc \in {"ExchangeError", "ExchangeNotAvailable"}
        THEN ret(NoneBook, None, FALSE, FALSE, FALSE)
        ELSE IF out.exc # None THEN ret(NoneBook, None, FALSE, FALSE, TRUE)
        ELSE IF out.book.bids = <<>> \/ out.book.asks = <<>>
             THEN ret(NoneBook, None, FALSE, FALSE, FALSE)
        ELSE ret(out.book, exchange_name, FALSE, find_USD[market_name] > 0, FALSE)

\* exchange_fetch_order_book without the handler of lines 269-274
exchange_fetch_order_book_uncaught(out, exchange_name, market_name) ==
    LET ret(book, name, rm, rate, exc) ==
            [order_book |-> book, exchange_name |-> name,
             remove |-> rm, rate |-> rate, raised |-> exc]
    IN  IF out.exc \in {"DDoSProtection", "RequestTimeout"}
        THEN ret(NoneBook, exchange_name, FALSE, FALSE, FALSE)
        ELSE IF out.exc = "ExchangeError" THEN ret(NoneBook, None, TRUE, FALSE, FALSE)
        ELSE IF out.exc # None THEN ret(NoneBook, None, FALSE, FALSE, TRUE)
        ELSE IF out.book.bids = <<>> \/ out.book.asks = <<>>
             THEN ret(NoneBook, None, FALSE, FALSE, FALSE)
        ELSE ret(out.book, exchange_name, FALSE, find_USD[market_name] > 0, FALSE)

\* exchange_fetch_order_book with the USD rate of lines 280-283 recorded before
\* the test of line 276
exchange_fetch_order_book_rate_first(out, exchange_name, market_name) ==
    LET ret(book, name, rm, rate, exc) ==
            [order_book |-> book, exchange_name |-> name,
             remove |-> rm, rate |-> rate, raised |-> exc]
    IN  IF out.exc \in {"DDoSProtection", "RequestTimeout"}
        THEN ret(NoneBook, exchange_name, FALSE, FALSE, FALSE)
        ELSE IF out.exc = "ExchangeError" THEN ret(NoneBook, None, TRUE, FALSE, FALSE)
        ELSE IF out.exc = "ExchangeNotAvailable" THEN ret(NoneBook, None, FALSE, FALSE, FALSE)
        ELSE IF out.exc # None THEN ret(NoneBook, None, FALSE, FALSE, TRUE)
        ELSE IF out.book.bids = <<>> \/ out.book.asks = <<>>
             THEN ret(NoneBook, None, FALSE,
                      out.book.bids # <<>> /\ find_USD[market_name] > 0, FALSE)
        ELSE ret(out.book, exchange_name, FALSE, find_USD[market_name] > 0, FALSE)

\* What exchange_fetch_order_book does with the outcome of fetch_order_book:
\* the pair it returns (or the exception it lets through), whether it prunes
\* the exchange from the market and whether it records a USD rate.
exchange_fetch_order_book(out, exchange_name, market_name) ==
    LET ret(book, name, rm, rate, exc) ==
            [order_book |-> book, exchange_name |-> name,
             remove |-> rm, rate |-> rate, raised |-> exc]
    IN  IF out.exc = "DDoSProtection" THEN ret(NoneBook, exchange_name, FALSE, FALSE, FALSE)
        ELSE IF out.exc = "RequestTimeout" THEN ret(NoneBook, exchange_name, FALSE, FALSE, FALSE)
        ELSE IF out.exc = "ExchangeError" THEN ret(NoneBook, None, TRUE, FALSE, FALSE)
        ELSE IF out.exc = "ExchangeNotAvailable" THEN ret(NoneBook, None, FALSE, FALSE, FALSE)
        ELSE IF out.exc # None THEN ret(NoneBook, None, FALSE, FALSE, TRUE)
        ELSE IF out.book.bids = <<>> \/ out.book.asks = <<>>
             THEN ret(NoneBook, None, FALSE, FALSE, FALSE)
        ELSE ret(out.book, exchange_name, FALSE, find_USD[market_name] > 0, FALSE)

\* The opportunity dict a resolution attempt starts from (lines 187-193)
NewOpportunity(market_name, current_opp_id) ==
    [highest_bid |-> [price |-> NoBid, exchange |-> None, volume |-> NoVolume],
     lowest_ask |-> [price |-> Inf, exchange |-> None, volume |-> NoVolume],
     ticker |-> market_name,
     id |-> current_opp_id]

\* UpdateOpportunity with `>=` for `>` in line 227
UpdateOpportunity_ties(opportunity, order_book, exchange_name) ==
    LET bid == order_book.bids[1][1]
        ask == order_book.asks[1][1]
        o1 == IF bid >= opportunity.highest_bid.price
              THEN [opportunity EXCEPT !.highest_bid =
                       [price |-> bid, exchange |-> exchange_name,
                        volume |-> order_book.bids[1][2]]]
              ELSE opportunity
    IN  IF ask < o1.lowest_ask.price
        THEN [o1 EXCEPT !.lowest_ask =
                 [price |-> ask, exchange |-> exchange_name,
                  volume |-> order_book.asks[1][2]]]
        ELSE o1

\* UpdateOpportunity without the comparison of line 227: the latest bid is kept
UpdateOpportunity_latest(opportunity, order_book, exchange_name) ==
    LET bid == order_book.bids[1][1]
        ask == order_book.asks[1][1]
        o1 == [opportunity EXCEPT !.highest_bid =
                   [price |-> bid, exchange |-> exchange_name,
                    volume |-> order_book.bids[1][2]]]
    IN  IF ask < o1.lowest_ask.price
        THEN [o1 EXCEPT !.lowest_ask =
                 [price |-> ask, exchange |-> exchange_name,
                  volume |-> order_book.asks[1][2]]]
        ELSE o1

\* Lines 221-235 without the prices dict: one order book folded into the opportunity
UpdateOpportunity(opportunity, order_book, exchange_name) ==
    LET bid == order_book.bids[1][1]
        ask == order_book.asks[1][1]
        o1 == IF bid > opportunity.highest_bid.price
              THEN [opportunity EXCEPT !.highest_bid =
                       [price |-> bid, exchange |-> exchange_name,
                        volume |-> order_book.bids[1][2]]]
              ELSE opportunity
    IN  IF ask < o1.lowest_ask.price
        THEN [o1 EXCEPT !.lowest_ask =
                 [price |-> ask, exchange |-> exchange_name,
                  volume |-> order_book.asks[1][2]]]
        ELSE o1

\* Lines 224-225: prices[exchange_name] = ask
UpdatePrices(prices, order_book, exchange_name) ==
    [e \in DOMAIN prices \cup {exchange_name} |->
        IF e = exchange_name THEN order_book.asks[1][1] ELSE prices[e]]

\* Line 174 left out
NextOpportunityId_stuck(id) == id

\* Line 174: self.opportunity_id += 1
NextOpportunityId(id) == id + 1

\* Line 173: self._find_opportunity_calls += 1
NextCalls(calls) == calls + 1

NoPrices == [e \in {} |-> 0]

\* The value a _find_opportunity coroutine hands back: `pair` tells whether it
\* is the tuple (opportunity, prices) or the bare opportunity.
Result(market_name, pair, opportunity, prices, degraded) ==
    [market |-> market_name, pair |-> pair, opportunity |-> opportunity,
     prices |-> prices, raised |-> FALSE, degraded |-> degraded]

Raised(market_name) ==
    [market |-> market_name, pair |-> FALSE, opportunity |-> NewOpportunity(market_name, 0),
     prices |-> NoPrices, raised |-> TRUE, degraded |-> FALSE]

IdleTask ==
    [pc |-> "idle", return_prices |-> FALSE, current_opp_id |-> 0,
     opportunity |-> NewOpportunity(None, 0), prices |-> NoPrices, exchange_name |-> None]

\* History of a market: the attempts that launched fetches, the full order
\* books its current attempt got back (in completion order), the transient
\* failures its fetches returned, the exchange whose transient failure ended
\* its first attempt, the exchanges that raised ExchangeError for it, and its
\* rank among the finished resolutions; how many of the arrivals the loop of
\* the attempt took up, and how many of its fetches ended with
\* ExchangeNotAvailable or an empty order book.
NewHist == [round |-> 0, arrivals |-> <<>>, transients |-> 0, first_failed |-> None,
            unsupported |-> {}, rank |-> 0, handled |-> 0, skipped |-> 0]

\* The history of a market whose coroutine returns now
Finished(h) == [h EXCEPT !.rank = 1 + Cardinality({x \in Markets : hist[x].rank > 0})]

TransientTotal == LET RECURSIVE Sum(_)
                      Sum(S) == IF S = {} THEN 0
                                ELSE LET m == CHOOSE x \in S : TRUE
                                     IN hist[m].transients + Sum(S \ {m})
                  IN Sum(Markets)

----------------------------------------------------------------------------
\* No OpportunityFinder is built and no attempt is replayed while the
\* orchestrator runs
NoFinder == [pc |-> "none"]
NoReplay == [pc |-> "none"]

(* Initial state: the finder as left by __init__, and the argument of      *)
(* get_opportunities.                                                       *)

PriceMarketsChoices ==
    {[given |-> FALSE, markets |-> {}]}
    \cup {[given |-> TRUE, markets |-> {MarketNames[i] : i \in 1..k}] :
             k \in 1..Len(MarketNames)}

\* The collection handed to __init__
InitialCollections ==
    [m \in Markets |-> IF m = "ETH/BTC" THEN {"binance", "kraken"} ELSE {"binance"}]

\* SuperOpportunityFinder.__init__ (lines 104-131), before get_opportunities runs
NotStarted ==
    /\ collections = InitialCollections
    /\ exchange_list = [m \in Markets |-> {}]
    /\ rate_limited_exchanges = {}
    /\ find_opportunity_calls = StartCalls
    /\ opportunity_id = StartOpportunityId
    /\ usd_rates = [e \in Exchanges |-> [m \in Markets |-> 0]]
    /\ gen = [pc |-> "start", pending |-> {}]
    /\ task = [m \in Markets |-> IdleTask]
    /\ awaited = [m \in Markets |-> {}]
    /\ stale = [m \in Markets |-> [e \in Exchanges |-> 0]]
    /\ done_queue = <<>>
    /\ yielded = <<>>
    /\ closed = [e \in Exchanges |-> 0]
    /\ to_close = {}
    /\ error = FALSE
    /\ hist = [m \in Markets |-> NewHist]

Init ==
    /\ NotStarted
    /\ price_markets \in PriceMarketsChoices
    /\ finder = NoFinder
    /\ replay = NoReplay

----------------------------------------------------------------------------
(* _find_opportunity *)

\* Lines 173-176: a call of _find_opportunity up to its first await.  The
\* frame of the call replaces the caller's frame (the caller only returns
\* what the call returns).
Enter(t, return_prices, id) ==
    [t EXCEPT !.pc = "stagger", !.return_prices = return_prices,
              !.current_opp_id = id, !.opportunity = NewOpportunity(None, 0),
              !.prices = NoPrices, !.exchange_name = None]

\* Ids handed to k calls made one after the other
RECURSIVE IdAfter(_, _)
IdAfter(id, k) == IF k = 0 THEN id ELSE NextOpportunityId(IdAfter(id, k - 1))

RECURSIVE CallsAfter(_, _)
CallsAfter(calls, k) == IF k = 0 THEN calls ELSE NextCalls(CallsAfter(calls, k - 1))

\* Lines 237-240, and line 219 when degraded: the coroutine returns and
\* as_completed queues its result for the generator.
Return(m, t, degraded) ==
    LET pair == t.return_prices /\ ~degraded
    IN  Result(m, pair, t.opportunity, IF pair THEN t.prices ELSE NoPrices, degraded)

\* The check of lines 178-179 left out
RateLimited_never(m) == FALSE

\* Lines 178-179: some exchange of the list handed to the call is rate limited
RateLimited(m) == exchange_list[m] \cap rate_limited_exchanges # {}

\* Lines 178-196, after the staggered sleep: either an exchange of the list is
\* rate limited (sleep 0.1, line 180), or the fetches are launched.
find_opportunity_check(m) ==
    /\ task[m].pc = "stagger"
    /\ IF RateLimited(m)
       THEN /\ task' = [task EXCEPT ![m].pc = "rate_wait"]
            /\ UNCHANGED <<awaited, hist, done_queue>>
       ELSE LET o == NewOpportunity(m, task[m].current_opp_id)
                h == [hist[m] EXCEPT !.round = @ + 1, !.arrivals = <<>>, !.handled = 0,
                                     !.skipped = 0]
                t == [task[m] EXCEPT !.opportunity = o, !.prices = NoPrices]
            IN  /\ awaited' = [awaited EXCEPT ![m] = exchange_list[m]]
                /\ IF exchange_list[m] = {}
                   THEN /\ task' = [task EXCEPT ![m] = [t EXCEPT !.pc = "returned"]]
                        /\ done_queue' = Append(done_queue, Return(m, t, FALSE))
                        /\ hist' = [hist EXCEPT ![m] = Finished(h)]
                   ELSE /\ task' = [task EXCEPT ![m] = [t EXCEPT !.pc = "fetching"]]
                        /\ hist' = [hist EXCEPT ![m] = h]
                        /\ UNCHANGED done_queue
    /\ UNCHANGED <<collections, exchange_list, rate_limited_exchanges, find_opportunity_calls,
                   opportunity_id, usd_rates, price_markets, gen, stale, yielded,
                   closed, to_close, error>>
    /\ UNCHANGED <<finder, replay>>

\* Line 181, after the 0.1 s sleep: the call is made again with the same list
\* object and without return_prices.
find_opportunity_retry(m) ==
    /\ task[m].pc = "rate_wait"
    \* bound of the model: once MaxCalls calls were made, the sleep lasts until
    \* no exchange of the list is rate limited
    /\ opportunity_id < MaxCalls \/ exchange_list[m] \cap rate_limited_exchanges = {}
    /\ find_opportunity_calls' = NextCalls(find_opportunity_calls)
    /\ opportunity_id' = NextOpportunityId(opportunity_id)
    /\ task' = [task EXCEPT ![m] = Enter(@, FALSE, opportunity_id')]
    /\ UNCHANGED <<collections, exchange_list, rate_limited_exchanges, usd_rates,
                   price_markets, gen, awaited, stale, done_queue, yielded, closed,
                   to_close, error, hist>>
    /\ UNCHANGED <<finder, replay>>

\* Shared-state effects of one run of exchange_fetch_order_book
FetchEffects(r, e, m, out) ==
    /\ collections' = IF r.remove THEN remove_exchange_from_market(collections, e, m)
                      ELSE collections
    /\ exchange_list' = IF r.remove /\ m \in DOMAIN collections
                        THEN [exchange_list EXCEPT ![m] = @ \ {e}]
                        ELSE exchange_list
    /\ usd_rates' = IF r.rate THEN add_to_rates_dict(usd_rates, e, m, out.book.bids[1][1])
                    ELSE usd_rates

TransientAllowed(out) == out.exc \in TransientErrors => TransientTotal < MaxTransient

\* The outcomes the code skips: ExchangeNotAvailable, or a book without bids
\* or without asks
Skipped(out) ==
    \/ out.exc = "ExchangeNotAvailable"
    \/ out.exc = None /\ (out.book.bids = <<>> \/ out.book.asks = <<>>)

NoteStale(h, out, e) ==
    [h EXCEPT !.transients = IF out.exc \in TransientErrors THEN @ + 1 ELSE @,
              !.unsupported = IF out.exc = "ExchangeError" THEN @ \cup {e} ELSE @]

NoteOutcome(h, out, r, e) ==
    [NoteStale(h, out, e) EXCEPT
              !.skipped = IF Skipped(out) THEN @ + 1 ELSE @,
              !.arrivals = IF r.exchange_name # None /\ r.order_book # NoneBook
                           THEN Append(@, [exchange |-> e, order_book |-> r.order_book])
                           ELSE @]

\* A fetch of the current attempt of market m completes (lines 242-287) and,
\* when the coroutine is waiting in the as_completed loop, its result is
\* handled (lines 198-235).  as_completed hands results over in completion
\* order, and nothing else touches the opportunity in between.
fetch_completes(m, e, out) ==
    /\ e \in awaited[m]
    /\ TransientAllowed(out)
    /\ LET r == exchange_fetch_order_book(out, e, m)
           h0 == NoteOutcome(hist[m], out, r, e)
           rest == awaited[m] \ {e}
           t == task[m]
       IN  /\ FetchEffects(r, e, m, out)
           /\ IF t.pc # "fetching"
              THEN \* the coroutine sleeps after a transient failure: nobody reads the result
                   /\ awaited' = [awaited EXCEPT ![m] = rest]
                   /\ hist' = [hist EXCEPT ![m] = h0]
                   /\ UNCHANGED <<task, rate_limited_exchanges, done_queue, stale>>
              ELSE IF r.raised
              THEN \* the exception leaves _find_opportunity; the other fetches go on
                   /\ awaited' = [awaited EXCEPT ![m] = {}]
                   /\ stale' = [stale EXCEPT ![m] = [x \in Exchanges |->
                                    IF x \in rest THEN @[x] + 1 ELSE @[x]]]
                   /\ hist' = [hist EXCEPT ![m] = Finished(h0)]
                   /\ task' = [task EXCEPT ![m].pc = "returned"]
                   /\ done_queue' = Append(done_queue, Raised(m))
                   /\ UNCHANGED rate_limited_exchanges
              ELSE IF r.exchange_name = None
              THEN \* line 200: continue
                   /\ awaited' = [awaited EXCEPT ![m] = rest]
                   /\ UNCHANGED <<rate_limited_exchanges, stale>>
                   /\ IF rest = {}
                      THEN /\ task' = [task EXCEPT ![m].pc = "returned"]
                           /\ done_queue' = Append(done_queue, Return(m, t, FALSE))
                           /\ hist' = [hist EXCEPT ![m] = Finished(h0)]
                      ELSE /\ hist' = [hist EXCEPT ![m] = h0]
                           /\ UNCHANGED <<task, done_queue>>
              ELSE IF r.order_book = NoneBook
              THEN \* lines 204-206: rate limited, sleep 0.2
                   LET h1 == [h0 EXCEPT !.first_failed =
                                 IF h0.round = 1 /\ @ = None THEN e ELSE @]
                   IN  /\ rate_limited_exchanges' = rate_limited_exchanges \cup {r.exchange_name}
                       /\ task' = [task EXCEPT ![m].pc = "cooldown",
                                                ![m].exchange_name = r.exchange_name]
                       /\ awaited' = [awaited EXCEPT ![m] = rest]
                       /\ hist' = [hist EXCEPT ![m] = h1]
                       /\ UNCHANGED <<done_queue, stale>>
              ELSE \* lines 221-235
                   LET t1 == [t EXCEPT
                                !.opportunity = UpdateOpportunity(@, r.order_book, r.exchange_name),
                                !.prices = IF t.return_prices
                                           THEN UpdatePrices(@, r.order_book, r.exchange_name)
                                           ELSE @]
                       h2 == [h0 EXCEPT !.handled = @ + 1]
                   IN  /\ awaited' = [awaited EXCEPT ![m] = rest]
                       /\ UNCHANGED <<rate_limited_exchanges, stale>>
                       /\ IF rest = {}
                          THEN /\ task' = [task EXCEPT ![m] = [t1 EXCEPT !.pc = "returned"]]
                               /\ done_queue' = Append(done_queue, Return(m, t1, FALSE))
                               /\ hist' = [hist EXCEPT ![m] = Finished(h2)]
                          ELSE /\ task' = [task EXCEPT ![m] = t1]
                               /\ hist' = [hist EXCEPT ![m] = h2]
                               /\ UNCHANGED done_queue
    /\ UNCHANGED <<find_opportunity_calls, opportunity_id, price_markets, gen, yielded,
                   closed, to_close, error>>
    /\ UNCHANGED <<finder, replay>>

\* A fetch launched by an attempt that was abandoned completes: only the
\* effects of exchange_fetch_order_book remain.
stale_fetch_completes(m, e, out) ==
    /\ stale[m][e] > 0
    /\ TransientAllowed(out)
    /\ LET r == exchange_fetch_order_book(out, e, m)
       IN  /\ FetchEffects(r, e, m, out)
           /\ hist' = [hist EXCEPT ![m] = NoteStale(@, out, e)]
    /\ stale' = [stale EXCEPT ![m][e] = @ - 1]
    /\ UNCHANGED <<rate_limited_exchanges, find_opportunity_calls, opportunity_id,
                   price_markets, gen, task, awaited, done_queue, yielded, closed,
                   to_close, error>>
    /\ UNCHANGED <<finder, replay>>

\* Lines 208-209 left out
Expire_never(limited, exchange_name) == limited

\* Lines 208-209: the exchange leaves the set if it is still in it
Expire(limited, exchange_name) ==
    IF exchange_name \in limited THEN limited \ {exchange_name} ELSE limited

\* Line 219 returning a fresh opportunity
DegradedReturn_empty(m, t) ==
    Return(m, [t EXCEPT !.opportunity = NewOpportunity(m, t.current_opp_id)], TRUE)

\* Line 219: the opportunity as the loop left it is returned, without prices
DegradedReturn(m, t) == Return(m, t, TRUE)

\* Lines 208-219, after the 0.2 s sleep: the exchange leaves the rate-limit
\* set if it is still there; the market is resolved again if it is still in
\* the collection, else the opportunity built so far is returned.
find_opportunity_after_cooldown(m) ==
    /\ task[m].pc = "cooldown"
    /\ rate_limited_exchanges' = Expire(rate_limited_exchanges, task[m].exchange_name)
    /\ awaited' = [awaited EXCEPT ![m] = {}]
    /\ stale' = [stale EXCEPT ![m] = [x \in Exchanges |->
                     IF x \in awaited[m] THEN @[x] + 1 ELSE @[x]]]
    /\ IF m \in DOMAIN collections
       THEN /\ find_opportunity_calls' = NextCalls(find_opportunity_calls)
            /\ opportunity_id' = NextOpportunityId(opportunity_id)
            /\ exchange_list' = [exchange_list EXCEPT ![m] = collections[m]]
            /\ task' = [task EXCEPT ![m] = Enter(@, FALSE, opportunity_id')]
            /\ UNCHANGED <<done_queue, hist>>
       ELSE /\ task' = [task EXCEPT ![m].pc = "returned"]
            /\ done_queue' = Append(done_queue, DegradedReturn(m, task[m]))
            /\ hist' = [hist EXCEPT ![m] = Finished(@)]
            /\ UNCHANGED <<find_opportunity_calls, opportunity_id, exchange_list>>
    /\ UNCHANGED <<collections, usd_rates, price_markets, gen, yielded, closed,
                   to_close, error>>
    /\ UNCHANGED <<finder, replay>>

----------------------------------------------------------------------------
(* get_opportunities *)

\* Orders in which the coroutines of a set of markets can make their first
\* step: as_completed schedules set(fs), whose order is that of the hashes.
Orders(S) == {f \in [S -> 1..Cardinality(S)] : \A a, b \in S : a # b => f[a] # f[b]}

\* Every market of the collection taken as a priority market
PriorityTasks_all(pm, coll) == DOMAIN coll

\* The markets resolved in the first phase (lines 149-151)
PriorityTasks(pm, coll) == pm.markets

\* as_completed schedules one task per market of S; each runs lines 173-176.
Launch(S, return_prices, lists) ==
    \E f \in Orders(S) :
        /\ task' = [m \in Markets |->
                       IF m \in S
                       THEN Enter(task[m], return_prices, IdAfter(opportunity_id, f[m]))
                       ELSE task[m]]
        /\ opportunity_id' = IdAfter(opportunity_id, Cardinality(S))
        /\ find_opportunity_calls' = CallsAfter(find_opportunity_calls, Cardinality(S))
        /\ exchange_list' = [m \in Markets |-> IF m \in S THEN lists[m] ELSE exchange_list[m]]

\* Line 163: one close() task per held exchange
CloseTasks == Exchanges

\* Lines 157-164: the remaining markets are launched; with none left the
\* generator goes on to close the exchanges.
LaunchRemaining(coll) ==
    IF DOMAIN coll # {}
    THEN /\ Launch(DOMAIN coll, FALSE, coll)
         /\ gen' = [pc |-> "await_remaining", pending |-> DOMAIN coll]
         /\ UNCHANGED to_close
    ELSE /\ gen' = [pc |-> "closing", pending |-> {}]
         /\ to_close' = CloseTasks
         /\ UNCHANGED <<task, opportunity_id, find_opportunity_calls, exchange_list>>

\* Lines 141-160: the first step of the generator.  `collections` of line 146
\* is self.collections itself, so line 151 deletes from self.collections.
get_opportunities ==
    /\ gen.pc = "start"
    /\ IF price_markets.given
       THEN LET S == PriorityTasks(price_markets, collections)
                coll == [m \in DOMAIN collections \ S |-> collections[m]]
            IN  /\ collections' = coll
                /\ IF S # {}
                   THEN /\ Launch(S, TRUE, collections)
                        /\ gen' = [pc |-> "await_priority", pending |-> S]
                        /\ UNCHANGED to_close
                   ELSE LaunchRemaining(coll)
       ELSE /\ LaunchRemaining(collections)
            /\ UNCHANGED collections
    /\ UNCHANGED <<rate_limited_exchanges, usd_rates, price_markets, awaited, stale,
                   done_queue, yielded, closed, error, hist>>
    /\ UNCHANGED <<finder, replay>>

\* Results taken in the order the tasks were submitted
NextResult_submission(queue) ==
    CHOOSE i \in 1..Len(queue) :
        \A j \in 1..Len(queue) : MarketIndex(queue[i].market) <= MarketIndex(queue[j].market)

\* The position in as_completed's queue of the result yielded next
NextResult(queue) == 1

RemoveAt(q, i) == [j \in 1..(Len(q) - 1) |-> IF j < i THEN q[j] ELSE q[j + 1]]

\* Lines 153 and 161: `yield await result`.  An exception raised by the task
\* is raised again here and ends the generator.
yield_result ==
    /\ gen.pc \in {"await_priority", "await_remaining"}
    /\ done_queue # <<>>
    /\ LET i == NextResult(done_queue)
           r == done_queue[i]
       IN  /\ done_queue' = RemoveAt(done_queue, i)
           /\ IF r.raised
              THEN /\ error' = TRUE
                   /\ gen' = [pc |-> "failed", pending |-> gen.pending \ {r.market}]
                   /\ UNCHANGED yielded
              ELSE /\ yielded' = Append(yielded,
                                   [market |-> r.market, pair |-> r.pair,
                                    opportunity |-> r.opportunity, prices |-> r.prices,
                                    phase |-> gen.pc, degraded |-> r.degraded])
                   /\ gen' = [pc |-> IF gen.pc = "await_priority" THEN "yield_priority"
                                     ELSE "yield_remaining",
                              pending |-> gen.pending \ {r.market}]
                   /\ UNCHANGED error
    /\ task' = [task EXCEPT ![done_queue[NextResult(done_queue)].market] = IdleTask]
    /\ UNCHANGED <<collections, exchange_list, rate_limited_exchanges, find_opportunity_calls,
                   opportunity_id, usd_rates, price_markets, awaited, stale, closed,
                   to_close, hist>>
    /\ UNCHANGED <<finder, replay>>

\* The second loop left after its first result
ReadyToClose_early == gen.pc = "yield_remaining"

\* The generator may leave its second loop
ReadyToClose == gen.pc = "yield_remaining" /\ gen.pending = {}

\* The caller asks for the next item: the loop goes on, or the next phase
\* starts (lines 157-160), or the exchanges are closed (lines 163-164).
resume ==
    /\ gen.pc \in {"yield_priority", "yield_remaining"}
    /\ IF gen.pc = "yield_priority" /\ gen.pending # {}
       THEN /\ gen' = [gen EXCEPT !.pc = "await_priority"]
            /\ UNCHANGED <<task, opportunity_id, find_opportunity_calls, exchange_list, to_close>>
       ELSE IF gen.pc = "yield_priority"
       THEN LaunchRemaining(collections)
       ELSE IF ReadyToClose
       THEN /\ gen' = [pc |-> "closing", pending |-> {}]
            /\ to_close' = CloseTasks
            /\ UNCHANGED <<task, opportunity_id, find_opportunity_calls, exchange_list>>
       ELSE /\ gen' = [gen EXCEPT !.pc = "await_remaining"]
            /\ UNCHANGED <<task, opportunity_id, find_opportunity_calls, exchange_list, to_close>>
    /\ UNCHANGED <<collections, rate_limited_exchanges, usd_rates, price_markets, awaited,
                   stale, done_queue, yielded, closed, error, hist>>
    /\ UNCHANGED <<finder, replay>>

\* One of the close() tasks of line 163 runs
close_exchange(e) ==
    /\ gen.pc = "closing"
    /\ e \in to_close
    /\ closed' = [closed EXCEPT ![e] = @ + 1]
    /\ to_close' = to_close \ {e}
    /\ UNCHANGED <<collections, exchange_list, rate_limited_exchanges, find_opportunity_calls,
                   opportunity_id, usd_rates, price_markets, gen, task, awaited, stale,
                   done_queue, yielded, error, hist>>
    /\ UNCHANGED <<finder, replay>>

\* Lines 164-165: asyncio.wait returns when every close() is done
finish ==
    /\ gen.pc = "closing"
    /\ to_close = {}
    /\ gen' = [gen EXCEPT !.pc = "done"]
    /\ UNCHANGED <<collections, exchange_list, rate_limited_exchanges, find_opportunity_calls,
                   opportunity_id, usd_rates, price_markets, task, awaited, stale,
                   done_queue, yielded, closed, to_close, error, hist>>
    /\ UNCHANGED <<finder, replay>>

----------------------------------------------------------------------------

Next ==
    \/ get_opportunities
    \/ \E m \in Markets : find_opportunity_check(m)
    \/ \E m \in Markets : find_opportunity_retry(m)
    \/ \E m \in Markets, e \in Exchanges, out \in Outcomes : fetch_completes(m, e, out)
    \/ \E m \in Markets, e \in Exchanges, out \in Outcomes : stale_fetch_completes(m, e, out)
    \/ \E m \in Markets : find_opportunity_after_cooldown(m)
    \/ yield_result
    \/ resume
    \/ \E e \in Exchanges : close_exchange(e)
    \/ finish

Spec == Init /\ [][Next]_vars

\* The event loop runs every callback that is ready, every sleep ends, every
\* fetch and close() returns, and the caller keeps asking for the next item.
Fairness ==
    /\ WF_vars(get_opportunities)
    /\ \A m \in Markets : WF_vars(find_opportunity_check(m))
    /\ \A m \in Markets : WF_vars(find_opportunity_retry(m))
    /\ \A m \in Markets : WF_vars(find_opportunity_after_cooldown(m))
    /\ \A m \in Markets, e \in Exchanges :
           WF_vars(\E out \in Outcomes : fetch_completes(m, e, out))
    /\ \A m \in Markets, e \in Exchanges :
           WF_vars(\E out \in Outcomes : stale_fetch_completes(m, e, out))
    /\ WF_vars(yield_result)
    /\ WF_vars(resume)
    /\ \A e \in Exchanges : WF_vars(close_exchange(e))
    /\ WF_vars(finish)

FairSpec == Spec /\ Fairness

TypeOK ==
    /\ DOMAIN collections \subseteq Markets
    /\ rate_limited_exchanges \subseteq Exchanges
    /\ gen.pc \in {"start", "await_priority", "yield_priority", "await_remaining",
                   "yield_remaining", "closing", "done", "failed"}

----------------------------------------------------------------------------
(* OpportunityFinder: the single-market resolver (find_min_max)             *)

\* The variables of the orchestrator, which a find_min_max call leaves alone
orchestrator == <<collections, exchange_list, rate_limited_exchanges, find_opportunity_calls,
                  opportunity_id, usd_rates, price_markets, gen, task, awaited, stale,
                  done_queue, yielded, closed, to_close, error, hist>>

\* What exchange.fetch_ticker returns or raises
Tickers == {[bid |-> b, ask |-> a] : b \in Prices, a \in Prices}
TickerOutcomes == {[exc |-> x, ticker |-> NoneBook] : x \in Errors}
                  \cup {[exc |-> None, ticker |-> t] : t \in Tickers}

\* OpportunityFinder.__init__ (lines 24-45): is_exchange tells which handles of
\* the list are ccxt.Exchange instances.
NewFinder(is_exchange) ==
    [pc |-> "built",
     is_exchange |-> is_exchange,
     tasks |-> [e \in Exchanges |-> "none"],
     ticker |-> [e \in Exchanges |-> NoneBook],
     highest_bid |-> [exchange |-> None, price |-> NoBid],
     lowest_ask |-> [exchange |-> None, price |-> Inf],
     closed |-> [e \in Exchanges |-> 0],
     updates |-> <<>>,
     result |-> NoneBook]

\* Lines 72-80: the ticker of one exchange compared with the best so far
TestBidAndAsk(f, e) ==
    LET bid == f.ticker[e].bid
        ask == f.ticker[e].ask
    IN  [f EXCEPT !.highest_bid = IF @.price < bid
                                  THEN [exchange |-> e, price |-> bid] ELSE @,
                  !.lowest_ask = IF ask < @.price
                                 THEN [exchange |-> e, price |-> ask] ELSE @,
                  !.updates = Append(@, e)]

\* asyncio.wait returning as soon as one task is over
WaitOver_first(tasks) == \E e \in Exchanges : tasks[e] \in {"done", "raised"}

\* Line 86: asyncio.wait(tasks) returns once every task is over, whether it
\* returned or raised; it does not raise what a task raised.
WaitOver(tasks) == \A e \in Exchanges : tasks[e] \in {"done", "raised"}

\* Lines 84-86: one task per handle of the list, then the wait
find_min_max ==
    /\ finder.pc = "built"
    /\ finder' = [finder EXCEPT !.pc = "waiting",
                                !.tasks = [e \in Exchanges |-> "created"]]
    /\ UNCHANGED <<orchestrator, replay>>

\* Lines 53-60: the task of one handle runs up to the fetch; a handle that is
\* not a ccxt.Exchange ends the task with ValueError.
test_bid_and_ask(e) ==
    /\ finder.pc = "waiting"
    /\ finder.tasks[e] = "created"
    /\ finder' = [finder EXCEPT !.tasks[e] = IF finder.is_exchange[e]
                                             THEN "fetching" ELSE "raised"]
    /\ UNCHANGED <<orchestrator, replay>>

\* Lines 60-69: fetch_ticker returns and close() is called, or fetch_ticker
\* raises: nothing catches it (the handler of lines 61-67 is commented out),
\* so the task ends there.
fetch_ticker_returns(e, out) ==
    /\ finder.pc = "waiting"
    /\ finder.tasks[e] = "fetching"
    /\ finder' = IF out.exc # None
                 THEN [finder EXCEPT !.tasks[e] = "raised"]
                 ELSE [finder EXCEPT !.tasks[e] = "closing",
                                     !.ticker[e] = out.ticker,
                                     !.closed[e] = @ + 1]
    /\ UNCHANGED <<orchestrator, replay>>

\* Lines 69-82: close() returns and the ticker is compared
close_returns(e) ==
    /\ finder.pc = "waiting"
    /\ finder.tasks[e] = "closing"
    /\ finder' = [TestBidAndAsk(finder, e) EXCEPT !.tasks[e] = "done"]
    /\ UNCHANGED <<orchestrator, replay>>

\* Lines 86-90: the wait is over and the result dict is returned
find_min_max_returns ==
    /\ finder.pc = "waiting"
    /\ WaitOver(finder.tasks)
    /\ finder' = [finder EXCEPT !.pc = "returned",
                                !.result = [highest_bid |-> finder.highest_bid,
                                            lowest_ask |-> finder.lowest_ask]]
    /\ UNCHANGED <<orchestrator, replay>>

FinderInit ==
    /\ NotStarted
    /\ price_markets = [given |-> FALSE, markets |-> {}]
    /\ finder \in {NewFinder(v) : v \in [Exchanges -> BOOLEAN]}
    /\ replay = NoReplay

FinderNext ==
    \/ find_min_max
    \/ \E e \in Exchanges : test_bid_and_ask(e)
    \/ \E e \in Exchanges, out \in TickerOutcomes : fetch_ticker_returns(e, out)
    \/ \E e \in Exchanges : close_returns(e)
    \/ find_min_max_returns

FinderSpec == FinderInit /\ [][FinderNext]_vars

----------------------------------------------------------------------------
(* One resolution attempt of _find_opportunity replayed twice: the same     *)
(* exchanges with the same outcomes, their results handed over by           *)
(* as_completed in two orders.                                              *)

\* The orders in which the fetches of an attempt can complete
CompletionOrders ==
    {s \in [1..Cardinality(Exchanges) -> Exchanges] :
        \A i, j \in 1..Cardinality(Exchanges) : i # j => s[i] # s[j]}

\* Lines 187-196: the attempt before its first result
NewRun(market_name) ==
    [pc |-> "loop", pos |-> 1, opportunity |-> NewOpportunity(market_name, 1),
     degraded |-> FALSE]

\* Lines 197-240: the loop takes up the result of exchange e.  After a
\* transient failure and its cooldown the attempt is over: the market is
\* started again when it is still in the collection (listed), else the
\* opportunity built so far is returned (line 219).
HandleResult(run, e, out, market_name, listed) ==
    LET r == exchange_fetch_order_book(out, e, market_name)
        last == run.pos = Cardinality(Exchanges)
        on == [run EXCEPT !.pos = @ + 1, !.pc = IF last THEN "returned" ELSE "loop"]
    IN  IF r.raised THEN [run EXCEPT !.pc = "raised"]
        ELSE IF r.exchange_name = None THEN on
        ELSE IF r.order_book = NoneBook
        THEN IF listed THEN [run EXCEPT !.pc = "restarted"]
             ELSE [run EXCEPT !.pc = "returned", !.degraded = TRUE]
        ELSE [on EXCEPT !.opportunity = UpdateOpportunity(@, r.order_book, r.exchange_name)]

\* The next result of run k is taken up
replay_handle(k) ==
    /\ replay.pc = "replay"
    /\ replay.run[k].pc = "loop"
    /\ LET e == replay.order[k][replay.run[k].pos]
       IN  replay' = [replay EXCEPT !.run[k] =
                         HandleResult(@, e, replay.outcome[e], replay.market, replay.listed)]
    /\ UNCHANGED <<orchestrator, finder>>

ReplayInit ==
    /\ NotStarted
    /\ price_markets = [given |-> FALSE, markets |-> {}]
    /\ finder = NoFinder
    /\ replay \in {[pc |-> "replay", market |-> m, listed |-> l, outcome |-> o,
                    order |-> <<s1, s2>>, run |-> <<NewRun(m), NewRun(m)>>] :
                       m \in Markets, l \in BOOLEAN, o \in [Exchanges -> Outcomes],
                       s1 \in CompletionOrders, s2 \in CompletionOrders}

ReplayNext == \E k \in 1..2 : replay_handle(k)

ReplaySpec == ReplayInit /\ [][ReplayNext]_vars

----------------------------------------------------------------------------
(* Properties *)

Bid(a) == a.order_book.bids[1][1]
Ask(a) == a.order_book.asks[1][1]
Arrivals(m) == hist[m].arrivals
YieldedMarkets == {yielded[i].market : i \in 1..Len(yielded)}
PriorityMarkets == IF price_markets.given THEN price_markets.markets ELSE {}

BestBid(arr) == IF arr = <<>> THEN NoBid
                ELSE CHOOSE b \in {Bid(arr[j]) : j \in 1..Len(arr)} :
                         \A j \in 1..Len(arr) : Bid(arr[j]) <= b
BestAsk(arr) == IF arr = <<>> THEN Inf
                ELSE CHOOSE a \in {Ask(arr[j]) : j \in 1..Len(arr)} :
                         \A j \in 1..Len(arr) : a <= Ask(arr[j])
FirstBidder(arr) == IF arr = <<>> THEN None
                    ELSE arr[CHOOSE j \in 1..Len(arr) :
                                /\ Bid(arr[j]) = BestBid(arr)
                                /\ \A k \in 1..(j - 1) : Bid(arr[k]) # BestBid(arr)].exchange
FirstAsker(arr) == IF arr = <<>> THEN None
                   ELSE arr[CHOOSE j \in 1..Len(arr) :
                               /\ Ask(arr[j]) = BestAsk(arr)
                               /\ \A k \in 1..(j - 1) : Ask(arr[k]) # BestAsk(arr)].exchange

\* The opportunity holds the best bid and ask of the full order books that
\* the fetches of its attempt returned, each with the first exchange to quote it
ReflectsArrivals(r) ==
    LET arr == Arrivals(r.market)
    IN  /\ r.opportunity.highest_bid.price = BestBid(arr)
        /\ r.opportunity.lowest_ask.price = BestAsk(arr)
        /\ r.opportunity.highest_bid.exchange = FirstBidder(arr)
        /\ r.opportunity.lowest_ask.exchange = FirstAsker(arr)

\* C1 as claimed: every yielded opportunity holds the maximum bid and the
\* minimum ask over the exchanges that returned a non-empty order book, ties
\* going to the exchange whose fetch completed first.
C1_AsClaimed == \A i \in 1..Len(yielded) : ReflectsArrivals(yielded[i])

\* C1 amended: every opportunity yielded by an attempt that handled all of its
\* fetches (not the degraded return of line 219) holds the maximum bid and the
\* minimum ask over the exchanges that returned a non-empty order book in that
\* attempt, ties going to the exchange whose fetch completed first.
C1_BestQuotes ==
    \A i \in 1..Len(yielded) : ~yielded[i].degraded => ReflectsArrivals(yielded[i])

C1_Witness ==
    \E i \in 1..Len(yielded) :
        LET arr == Arrivals(yielded[i].market)
        IN  /\ ~yielded[i].degraded
            /\ Len(arr) = 2
            /\ arr[1].exchange # arr[2].exchange
            /\ Bid(arr[1]) = Bid(arr[2])
            /\ yielded[i].opportunity.highest_bid.exchange = arr[1].exchange
            /\ yielded[i].opportunity.lowest_ask.exchange = arr[1].exchange

\* C2 as claimed: a market, priority or not, one of whose exchanges failed with
\* a rate limit or timeout on the first attempt (the only transient failure of
\* the market) is resolved again, and the opportunity yielded for it holds the
\* quote that exchange returned on the retry.
C2_AsClaimed ==
    \A i \in 1..Len(yielded) :
        LET r == yielded[i]
            h == hist[r.market]
        IN  (h.first_failed # None /\ h.transients = 1) =>
                /\ h.round >= 2
                /\ \A j \in 1..Len(h.arrivals) :
                       h.arrivals[j].exchange = h.first_failed =>
                           /\ r.opportunity.highest_bid.price >= Bid(h.arrivals[j])
                           /\ r.opportunity.lowest_ask.price <= Ask(h.arrivals[j])

\* C3: an exchange that raised ExchangeError for a market is not in the
\* collection's entry for that market, in this and every later state.
C3_PrunedStaysOut ==
    \A m \in DOMAIN collections : hist[m].unsupported \cap collections[m] = {}

C3_Witness ==
    \E m \in DOMAIN collections :
        /\ hist[m].unsupported # {}
        /\ hist[m].round >= 2
        /\ task[m].pc = "fetching"

\* C4: one opportunity per market is yielded by the time the generator is
\* through its loops, the ids of the yielded opportunities are pairwise
\* different and all greater than the starting opportunity_id.
C4_OnePerMarket ==
    /\ \A i, j \in 1..Len(yielded) :
           i # j => /\ yielded[i].opportunity.id # yielded[j].opportunity.id
                    /\ yielded[i].market # yielded[j].market
    /\ \A i \in 1..Len(yielded) : yielded[i].opportunity.id > StartOpportunityId
    /\ gen.pc \in {"closing", "done"} =>
           /\ Len(yielded) = Cardinality(Markets)
           /\ YieldedMarkets = Markets

C4_Witness ==
    /\ gen.pc = "done"
    /\ Len(yielded) = Cardinality(Markets)
    /\ opportunity_id > StartOpportunityId + Cardinality(Markets)

\* C5: with priority markets given and other markets in the collection, no
\* other market is yielded before a priority market, and no other market is
\* started (let alone fetched) before every priority market has been yielded.
C5_PriorityFirst ==
    (PriorityMarkets # {} /\ Markets \ PriorityMarkets # {}) =>
        /\ \A i, j \in 1..Len(yielded) :
               i < j => ~(yielded[i].market \notin PriorityMarkets
                          /\ yielded[j].market \in PriorityMarkets)
        /\ \A m \in Markets \ PriorityMarkets :
               (task[m].pc # "idle" \/ hist[m].round > 0 \/ awaited[m] # {})
                   => PriorityMarkets \subseteq YieldedMarkets

C5_Witness ==
    /\ PriorityMarkets # {}
    /\ Len(yielded) = Cardinality(Markets)
    /\ yielded[1].market \in PriorityMarkets
    /\ yielded[Len(yielded)].market \notin PriorityMarkets
    /\ hist[yielded[Len(yielded)].market].round > 0

\* C6 as claimed: every priority market yields the pair (opportunity, prices),
\* prices mapping each exchange that returned a non-empty order book to its ask.
C6_AsClaimed ==
    \A i \in 1..Len(yielded) :
        LET r == yielded[i]
            arr == Arrivals(r.market)
        IN  r.market \in PriorityMarkets =>
                /\ r.pair
                /\ DOMAIN r.prices = {arr[j].exchange : j \in 1..Len(arr)}
                /\ \A j \in 1..Len(arr) : r.prices[arr[j].exchange] = Ask(arr[j])

\* C7: no exchange is closed more than once, none is closed before every
\* market has been yielded, and all are closed once when the generator ends.
C7_ClosedOnceAtEnd ==
    \A e \in Exchanges :
        /\ closed[e] <= 1
        /\ closed[e] >= 1 => YieldedMarkets = Markets
        /\ gen.pc = "done" => closed[e] = 1

C7_Witness ==
    /\ gen.pc = "done"
    /\ PriorityMarkets # {}
    /\ Markets \ PriorityMarkets # {}
    /\ \A e \in Exchanges : closed[e] = 1

\* C8 as claimed: no fetch on an exchange is in flight once the exchange has
\* been closed (no fetch is launched after the last yield, so a fetch in flight
\* then was in flight when close() was called).
C8_AsClaimed ==
    \A e \in Exchanges :
        closed[e] >= 1 => \A m \in Markets : e \notin awaited[m] /\ stale[m][e] = 0

\* C9: whatever the fetches return, no exception leaves a resolution or the
\* generator, and a generator that reached its end has yielded every market.
C9_NeverFails ==
    /\ ~error
    /\ gen.pc # "failed"
    /\ \A i \in 1..Len(done_queue) : ~done_queue[i].raised
    /\ gen.pc = "done" => YieldedMarkets = Markets

C9_Witness ==
    /\ gen.pc = "done"
    /\ YieldedMarkets = Markets
    /\ TransientTotal > 0
    /\ \E m \in Markets : hist[m].unsupported # {}

\* C10: within a phase, a market whose resolution finished before that of a
\* yielded market has itself been yielded, earlier.
SamePhase(a, b) == (a \in PriorityMarkets) = (b \in PriorityMarkets)

C10_CompletionOrder ==
    \A j \in 1..Len(yielded) :
        \A a \in Markets :
            (/\ SamePhase(a, yielded[j].market)
             /\ hist[a].rank > 0
             /\ hist[a].rank < hist[yielded[j].market].rank)
                => \E i \in 1..(j - 1) : yielded[i].market = a

C10_Witness ==
    /\ Len(yielded) = 2
    /\ SamePhase(yielded[1].market, yielded[2].market)
    /\ MarketIndex(yielded[1].market) > MarketIndex(yielded[2].market)
    /\ hist[yielded[1].market].rank < hist[yielded[2].market].rank

\* The exchanges whose ticker find_min_max got, and the best of their quotes
Fetched == {e \in Exchanges : finder.ticker[e] # NoneBook}
FirstUpdate(S) == finder.updates[CHOOSE i \in 1..Len(finder.updates) :
                                     /\ finder.updates[i] \in S
                                     /\ \A j \in 1..(i - 1) : finder.updates[j] \notin S]

\* C11 as claimed: when find_min_max has returned, close() was called exactly
\* once on every exchange of its list, whatever its fetch_ticker did.
C11_AsClaimed ==
    finder.pc = "returned" => \A e \in Exchanges : finder.closed[e] = 1

\* C12 as claimed: with a handle in the list that is not a ccxt.Exchange,
\* find_min_max never returns a result.
C12_AsClaimed ==
    (finder.pc # "none" /\ \E e \in Exchanges : ~finder.is_exchange[e])
        => finder.pc # "returned"

\* C13: find_min_max returns only when the task of every exchange of its list
\* is over; the highest_bid it returns is the greatest bid and the lowest_ask
\* the smallest ask of the tickers fetched, each with the first exchange
\* compared that quoted that price (and the initial values without a ticker).
C13_MinMax ==
    finder.pc = "returned" =>
        /\ \A e \in Exchanges : finder.tasks[e] \in {"done", "raised"}
        /\ Len(finder.updates) = Cardinality(Fetched)
        /\ IF Fetched = {}
           THEN /\ finder.result.highest_bid = [exchange |-> None, price |-> NoBid]
                /\ finder.result.lowest_ask = [exchange |-> None, price |-> Inf]
           ELSE LET hb == finder.result.highest_bid
                    la == finder.result.lowest_ask
                IN  /\ \A e \in Fetched : finder.ticker[e].bid <= hb.price
                    /\ \A e \in Fetched : la.price <= finder.ticker[e].ask
                    /\ hb.exchange = FirstUpdate({e \in Fetched : finder.ticker[e].bid = hb.price})
                    /\ la.exchange = FirstUpdate({e \in Fetched : finder.ticker[e].ask = la.price})

\* Two exchanges quoted the same bid and the same ask, and find_min_max returned
C13_Witness ==
    /\ finder.pc = "returned"
    /\ Fetched = Exchanges
    /\ \A e \in Exchanges : finder.ticker[e] = finder.ticker[finder.updates[1]]
    /\ finder.result.highest_bid.exchange = finder.updates[1]
    /\ finder.result.lowest_ask.exchange = finder.updates[1]

Holds(opportunity, arr) ==
    /\ opportunity.highest_bid.price = BestBid(arr)
    /\ opportunity.lowest_ask.price = BestAsk(arr)
    /\ opportunity.highest_bid.exchange = FirstBidder(arr)
    /\ opportunity.lowest_ask.exchange = FirstAsker(arr)

\* C15: when the cooldown after a transient failure ends, a market that is
\* still a key of the collection is started again on its current entry, and
\* the attempt that follows launches a fetch on every exchange of that entry;
\* a market that is no longer a key makes no further call, launches no fetch
\* and returns the opportunity holding the order books its loop took up
\* before the failure.
C15_AfterCooldown ==
    [][\A m \in Markets :
          /\ (task[m].pc = "cooldown" /\ task'[m].pc # "cooldown") =>
                IF m \in DOMAIN collections
                THEN /\ task'[m].pc = "stagger"
                     /\ exchange_list'[m] = collections[m]
                     /\ done_queue' = done_queue
                ELSE /\ task'[m].pc = "returned"
                     /\ awaited'[m] = {}
                     /\ opportunity_id' = opportunity_id
                     /\ Len(done_queue') = Len(done_queue) + 1
                     /\ LET r == done_queue'[Len(done_queue')]
                        IN  /\ r.market = m
                            /\ ~r.raised
                            /\ r.opportunity.ticker = m
                            /\ Holds(r.opportunity,
                                     SubSeq(hist[m].arrivals, 1, hist[m].handled))
          /\ (/\ task[m].pc = "stagger"
              /\ task'[m].pc \in {"fetching", "returned"}
              /\ hist[m].transients > 0
              /\ m \in DOMAIN collections)
             => awaited'[m] = collections[m]
      ]_vars

\* A market was yielded from the return that follows a cooldown, with the one
\* order book its loop had taken up before the failure
C15_Witness ==
    \E i \in 1..Len(yielded) :
        LET h == hist[yielded[i].market]
        IN  /\ yielded[i].degraded
            /\ yielded[i].market \notin DOMAIN collections
            /\ h.handled = 1
            /\ h.round = 1
            /\ yielded[i].opportunity.highest_bid.price = Bid(h.arrivals[1])
            /\ yielded[i].opportunity.lowest_ask.exchange = h.arrivals[1].exchange

\* C16 as claimed: the collection never gains a market or an exchange, and an
\* exchange is missing from a market's entry only if it raised ExchangeError
\* for that market; giving priority markets removes nothing else.
C16_AsClaimed ==
    /\ DOMAIN collections \subseteq Markets
    /\ \A m \in DOMAIN collections : collections[m] \subseteq InitialCollections[m]
    /\ \A m \in Markets : \A e \in InitialCollections[m] :
           (m \notin DOMAIN collections \/ e \notin collections[m])
               => e \in hist[m].unsupported

\* C17: a fetch awaited by an attempt that ends with ExchangeNotAvailable or
\* with a book lacking bids or asks changes neither the collection, nor the
\* lists, nor the rate-limit set, nor the USD rates, nor the opportunity of its
\* market; no call and no cooldown follows from it; and if it was the last
\* fetch of the attempt, the market returns the opportunity built from the
\* order books of the other exchanges.
C17_SkipChangesNothing ==
    [][\A m \in Markets :
          hist'[m].skipped = hist[m].skipped + 1 =>
              /\ collections' = collections
              /\ exchange_list' = exchange_list
              /\ rate_limited_exchanges' = rate_limited_exchanges
              /\ usd_rates' = usd_rates
              /\ opportunity_id' = opportunity_id
              /\ find_opportunity_calls' = find_opportunity_calls
              /\ task'[m].opportunity = task[m].opportunity
              /\ task'[m].current_opp_id = task[m].current_opp_id
              /\ hist'[m].round = hist[m].round
              /\ hist'[m].arrivals = hist[m].arrivals
              /\ task'[m].pc \in {task[m].pc, "returned"}
              /\ task'[m].pc # task[m].pc =>
                     /\ Len(done_queue') = Len(done_queue) + 1
                     /\ LET r == done_queue'[Len(done_queue')]
                        IN  /\ r.market = m
                            /\ ~r.raised /\ ~r.degraded
                            /\ r.opportunity = task[m].opportunity
                            /\ Holds(r.opportunity, hist[m].arrivals)
      ]_vars

\* A market was yielded after one of its two exchanges was skipped: the
\* opportunity is that of the other exchange's order book
C17_Witness ==
    \E i \in 1..Len(yielded) :
        LET h == hist[yielded[i].market]
        IN  /\ ~yielded[i].degraded
            /\ h.round = 1
            /\ h.skipped = 1
            /\ Len(h.arrivals) = 1
            /\ h.unsupported = {}
            /\ yielded[i].opportunity.highest_bid.exchange = h.arrivals[1].exchange
            /\ yielded[i].opportunity.highest_bid.price = Bid(h.arrivals[1])

\* Both replayed runs of the attempt have returned an opportunity
BothReturned == replay.pc = "replay" /\ \A k \in 1..2 : replay.run[k].pc = "returned"
SamePrices ==
    /\ replay.run[1].opportunity.highest_bid.price = replay.run[2].opportunity.highest_bid.price
    /\ replay.run[1].opportunity.lowest_ask.price = replay.run[2].opportunity.lowest_ask.price

\* C18 as claimed: with the same outcome per exchange, the opportunity an
\* attempt returns has the same highest_bid.price and lowest_ask.price in
\* whatever order the fetches complete.
C18_AsClaimed == BothReturned => SamePrices

\* C18 amended: with the same outcome per exchange, two attempts that both
\* took up every result (neither returned early after a transient failure)
\* return the same highest_bid.price and lowest_ask.price in whatever order
\* the fetches complete.
C18_OrderIndependent ==
    (BothReturned /\ \A k \in 1..2 : ~replay.run[k].degraded) => SamePrices

\* Two exchanges returned full order books with different prices and were
\* taken up in opposite orders
C18_Witness ==
    /\ BothReturned
    /\ \A k \in 1..2 : ~replay.run[k].degraded
    /\ replay.order[1] # replay.order[2]
    /\ \A e \in Exchanges : replay.outcome[e].book \in FullBooks
    /\ \E e1, e2 \in Exchanges :
           replay.outcome[e1].book.bids[1][1] < replay.outcome[e2].book.bids[1][1]
    /\ SamePrices

\* The markets whose coroutine sleeps after a transient failure of exchange e
Cooling(e) == {m \in Markets : task[m].pc = "cooldown" /\ task[m].exchange_name = e}

C20_AsClaimed ==
    \A i \in 1..Len(yielded) :
        LET m == yielded[i].market
        IN  ~(/\ hist[m].round = 1
              /\ exchange_list[m] # {}
              /\ hist[m].unsupported = {}
              /\ hist[m].transients = Cardinality(exchange_list[m])
              /\ awaited[m] = {}
              /\ \A e \in Exchanges : stale[m][e] = 0)

====
